---------------------------- MODULE Spec2Model ----------------------------
(* create_new_project of RustyRoad/cli (src/src/lib.rs): the bootstrap     *)
(* orchestrator and the four database provisioning arms, as a state        *)
(* machine.  One run of create_new_project is a sequential process whose   *)
(* position is pc[r]; the file system, the database server and the process *)
(* environment are shared by the runs of one process.                      *)
EXTENDS Integers, Sequences, FiniteSets, TLC

(***************************************************************************)
(* Bounds of the model.                                                    *)
(***************************************************************************)
\* the largest number of statements load_sql_for_new_project returns
MaxStmts == 3
\* the largest number of logged (non-fatal) I/O failures injected in a run
MaxLoggedFailures == 1

(***************************************************************************)
(* Strings are sequences of one-character strings, so that format! and     *)
(* str::replace are computed character by character.                       *)
(***************************************************************************)
Digits == <<"0", "1", "2", "3", "4", "5", "6", "7", "8", "9">>

RECURSIVE DigitValue(_, _)
DigitValue(c, i) ==
    IF i > Len(Digits) THEN -1
    ELSE IF Digits[i] = c THEN i - 1
    ELSE DigitValue(c, i + 1)

\* port.parse::<u16>(): the value, or -1 where parse returns Err
RECURSIVE ParseFrom(_, _, _)
ParseFrom(s, i, acc) ==
    IF i > Len(s) THEN acc
    ELSE IF DigitValue(s[i], 1) < 0 THEN -1
    ELSE IF acc * 10 + DigitValue(s[i], 1) > 65535 THEN -1
    ELSE ParseFrom(s, i + 1, acc * 10 + DigitValue(s[i], 1))

ParseU16(s) == IF Len(s) = 0 THEN -1 ELSE ParseFrom(s, 1, 0)

IsPrefixAt(s, from, i) ==
    /\ i + Len(from) - 1 <= Len(s)
    /\ SubSeq(s, i, i + Len(from) - 1) = from

\* str::replace(from, to): every non-overlapping match, left to right; an
\* empty pattern matches before every character and at the end
RECURSIVE ReplaceFrom(_, _, _, _)
ReplaceFrom(s, from, to, i) ==
    IF Len(from) = 0
    THEN IF i > Len(s) THEN to
         ELSE to \o <<s[i]>> \o ReplaceFrom(s, from, to, i + 1)
    ELSE IF i > Len(s) THEN <<>>
    ELSE IF IsPrefixAt(s, from, i)
         THEN to \o ReplaceFrom(s, from, to, i + Len(from))
    ELSE <<s[i]>> \o ReplaceFrom(s, from, to, i + 1)

Replace(s, from, to) == ReplaceFrom(s, from, to, 1)

Test == <<"t", "e", "s", "t">>

PostgresScheme == <<"p", "o", "s", "t", "g", "r", "e", "s", ":", "/", "/">>
MysqlScheme == <<"m", "y", "s", "q", "l", ":", "/", "/">>
PostgresAdminDb == <<"p", "o", "s", "t", "g", "r", "e", "s">>
MysqlAdminDb == <<"m", "y", "s", "q", "l">>

\* format!("{scheme}{}:{}@{}:{}/{}", username, password, host, port, db)
FormatUrl(scheme, d, db) ==
    scheme \o d.username \o <<":">> \o d.password \o <<"@">> \o d.host
           \o <<":">> \o d.port \o <<"/">> \o db

PostgresAdminUrl(d) == FormatUrl(PostgresScheme, d, PostgresAdminDb)
PostgresDatabaseUrl(d) == FormatUrl(PostgresScheme, d, d.name)
MysqlAdminUrl(d) == FormatUrl(MysqlScheme, d, MysqlAdminDb)
MysqlDatabaseUrl(d) == FormatUrl(MysqlScheme, d, d.name)

\* format!("DATABASE_URL=mongodb://localhost:27017/{}", name)
MongoDatabaseUrl(d) ==
    <<"D", "A", "T", "A", "B", "A", "S", "E", "_", "U", "R", "L", "=",
      "m", "o", "n", "g", "o", "d", "b", ":", "/", "/">> \o d.name

(***************************************************************************)
(* Inputs.                                                                 *)
(***************************************************************************)
Runs == {1, 2}

DatabaseType == {"Sqlite", "Postgres", "Mysql", "Mongo"}
Usernames == {<<"u">>}
Passwords == {<<"p">>}
Hosts == {<<"h">>}
Ports == {<<"5">>, <<"x">>}
DbNames == {<<"d">>, <<"p">>}

Database ==
    [database_type : DatabaseType, username : Usernames, password : Passwords,
     host : Hosts, port : Ports, name : DbNames]

ProjectNames == {<<"a">>, <<"b">>}

NoProject == [name |-> <<>>, config_dev_db |-> <<>>]
NoRecord == [project |-> NoProject, database |-> <<>>]
Unset == <<>>

\* rustyroad::writers::new(name): the descriptor, its config_dev_db the
\* project's own development database file
NewProject(n) == [name |-> n, config_dev_db |-> n \o <<".", "d", "b">>]

VARIABLES
    dirs,           \* the project directories on disk
    files,          \* the files on disk, <<project name, file>>
    written,        \* the files whose template content has been written
    record,         \* per project name, the persisted configuration record
    env,            \* the process environment's DATABASE_URL
    dbs,            \* the databases on the server, <<backend, name>>
    spawned,        \* the subprocesses launched, <<run, DATABASE_URL, exit>>
    pc,             \* each run's position in create_new_project
    name,           \* each run's argument name
    database_data,  \* each run's argument database_data
    project,        \* each run's local project
    sql_content,    \* each run's loaded statement sequence
    executed,       \* each run's executed statements, <<statement, ok>>
    connection,     \* each run's target connection: none, open, closed
    attempts,       \* each run's connection attempts, [to, ok], in order
    result,         \* each run's outcome: running, Ok, Err, panic
    fatal,          \* the step whose failure ended the run
    log,            \* each run's printed lines
    failures,       \* the logged failures injected so far
    dev_db_writes   \* each run's number of assignments to config_dev_db

shared == <<dirs, files, written, record, env, dbs, spawned>>
locals == <<pc, name, database_data, project, sql_content, executed,
            connection, attempts, result, fatal, log, dev_db_writes>>
locals_but_pc == <<name, database_data, project, sql_content, executed,
                   connection, attempts, result, fatal, log, dev_db_writes>>
vars == <<shared, locals, failures>>


(***************************************************************************)
(* The state before a call: the project directory may already be on disk,  *)
(* and the target database may already be on the server.  Run 1 is the     *)
(* call; run 2 stays idle in Spec.                                         *)
(***************************************************************************)
IdleDatabase ==
    [database_type |-> "Sqlite", username |-> <<"u">>, password |-> <<"p">>,
     host |-> <<"h">>, port |-> <<"5">>, name |-> <<"d">>]

Server(d) ==
    IF d.database_type \in {"Postgres", "Mysql"}
    THEN SUBSET {<<d.database_type, d.name>>}
    ELSE {{}}

Init ==
    /\ name = [r \in Runs |-> IF r = 1 THEN <<"a">> ELSE <<"b">>]
    /\ pc = [r \in Runs |-> IF r = 1 THEN "new" ELSE "idle"]
    /\ \E d \in Database :
         /\ database_data = [r \in Runs |-> IF r = 1 THEN d ELSE IdleDatabase]
         /\ dbs \in Server(d)
    /\ dirs \in SUBSET {name[1]}
    /\ files = {}
    /\ written = {}
    /\ record = [n \in ProjectNames |-> NoRecord]
    /\ env = Unset
    /\ spawned = {}
    /\ project = [r \in Runs |-> NoProject]
    /\ sql_content = [r \in Runs |-> <<>>]
    /\ executed = [r \in Runs |-> <<>>]
    /\ connection = [r \in Runs |-> "none"]
    /\ attempts = [r \in Runs |-> <<>>]
    /\ result = [r \in Runs |-> "running"]
    /\ fatal = [r \in Runs |-> "none"]
    /\ log = [r \in Runs |-> <<>>]
    /\ failures = 0
    /\ dev_db_writes = [r \in Runs |-> 0]

(***************************************************************************)
(* How a step ends.                                                        *)
(***************************************************************************)
\* the step returned; the run goes on with the step at l
Continue(r, l) ==
    /\ pc' = [pc EXCEPT ![r] = l]
    /\ UNCHANGED <<result, fatal, connection>>

\* println!
Println(r, line) == log' = [log EXCEPT ![r] = Append(@, line)]

\* panic!, expect, unwrap: the run ends at this step; unwinding drops the
\* arm's connection
Panic(r, step) ==
    /\ pc' = [pc EXCEPT ![r] = "aborted"]
    /\ result' = [result EXCEPT ![r] = "panic"]
    /\ fatal' = [fatal EXCEPT ![r] = step]
    /\ connection' =
           [connection EXCEPT ![r] = IF @ = "open" THEN "closed" ELSE @]
    /\ Println(r, <<"panic", step>>)

\* a writer succeeded: its file is on disk with its content
Wrote(r, file) ==
    /\ files' = files \cup {<<project[r].name, file>>}
    /\ written' = written \cup {<<project[r].name, file>>}

\* writer(..).unwrap_or_else(|why| println!(..)): a failure is printed and
\* the run goes on
LoggedWrite(r, step, file, l) ==
    /\ pc[r] = step
    /\ \/ /\ Wrote(r, file)
          /\ UNCHANGED <<log, failures>>
       \/ /\ failures < MaxLoggedFailures
          /\ failures' = failures + 1
          /\ Println(r, <<"Failed to write", step>>)
          /\ UNCHANGED <<files, written>>
    /\ Continue(r, l)

\* writer(..).expect(..): a failure panics
FatalWrite(r, step, file, l) ==
    /\ pc[r] = step
    /\ \/ /\ Wrote(r, file)
          /\ Continue(r, l)
          /\ UNCHANGED log
       \/ /\ Panic(r, step)
          /\ UNCHANGED <<files, written>>
    /\ UNCHANGED failures

(***************************************************************************)
(* Scaffolding, lines 28-116.                                              *)
(***************************************************************************)
new(r) ==
    /\ pc[r] = "new"
    /\ project' = [project EXCEPT ![r] = NewProject(name[r])]
    /\ Continue(r, "create_directory")
    /\ UNCHANGED <<shared, name, database_data, sql_content, executed,
                   attempts, log, dev_db_writes, failures>>

\* a failure (the directory is there already, or an I/O error) is printed
\* and the run goes on
create_directory(r) ==
    /\ pc[r] = "create_directory"
    /\ \/ /\ project[r].name \notin dirs
          /\ dirs' = dirs \cup {project[r].name}
          /\ UNCHANGED <<log, failures>>
       \/ /\ project[r].name \in dirs
          /\ Println(r, <<"Couldn't create directory", "AlreadyExists">>)
          /\ UNCHANGED <<dirs, failures>>
       \/ /\ project[r].name \notin dirs
          /\ failures < MaxLoggedFailures
          /\ failures' = failures + 1
          /\ Println(r, <<"Couldn't create directory", "Other">>)
          /\ UNCHANGED dirs
    /\ Continue(r, "create_files")
    /\ UNCHANGED <<files, written, record, env, dbs, spawned, name,
                   database_data, project, sql_content, executed, attempts,
                   dev_db_writes>>

ProjectFiles ==
    {"rustyroad.toml", "Cargo.toml", "main.rs", "package.json", "README.md",
     "index.js", "index.html.tera", "base.html.tera", "tailwind.css",
     "tailwind.config.js", "postcss.config.js", "routes/index.rs",
     ".gitignore", "routes/mod.rs", "header", "navbar", "dashboard", "login"}

\* create_files with the call that persists the configuration record left out
create_files_then_cargo_toml(r) ==
    /\ pc[r] = "create_files"
    /\ \/ /\ project[r].name \in dirs
          /\ files' = files \cup {<<project[r].name, f>> : f \in ProjectFiles}
          /\ Continue(r, "write_to_cargo_toml")
          /\ UNCHANGED log
       \/ /\ Panic(r, "create_files")
          /\ UNCHANGED files
    /\ UNCHANGED <<dirs, written, record, env, dbs, spawned, name,
                   database_data, project, sql_content, executed, attempts,
                   dev_db_writes, failures>>

\* create_files removing the project directory again when it fails
create_files_rolls_back(r) ==
    /\ pc[r] = "create_files"
    /\ \/ /\ project[r].name \in dirs
          /\ files' = files \cup {<<project[r].name, f>> : f \in ProjectFiles}
          /\ Continue(r, "write_to_rustyroad_toml")
          /\ UNCHANGED <<log, dirs>>
       \/ /\ Panic(r, "create_files")
          /\ dirs' = dirs \ {project[r].name}
          /\ UNCHANGED files
    /\ UNCHANGED <<written, record, env, dbs, spawned, name,
                   database_data, project, sql_content, executed, attempts,
                   dev_db_writes, failures>>

\* the files are created inside the project directory
create_files(r) ==
    /\ pc[r] = "create_files"
    /\ \/ /\ project[r].name \in dirs
          /\ files' = files \cup {<<project[r].name, f>> : f \in ProjectFiles}
          /\ Continue(r, "write_to_rustyroad_toml")
          /\ UNCHANGED log
       \/ /\ Panic(r, "create_files")
          /\ UNCHANGED files
    /\ UNCHANGED <<dirs, written, record, env, dbs, spawned, name,
                   database_data, project, sql_content, executed, attempts,
                   dev_db_writes, failures>>

\* what a writer leaves alone
WriterFrame ==
    UNCHANGED <<dirs, record, env, dbs, spawned, name, database_data, project,
                sql_content, executed, attempts, dev_db_writes>>

\* write_to_rustyroad_toml with unwrap_or_else(println) in place of expect
write_to_rustyroad_toml_logged(r) ==
    /\ pc[r] = "write_to_rustyroad_toml"
    /\ \/ /\ Wrote(r, "rustyroad.toml")
          /\ record' = [record EXCEPT ![project[r].name] =
                  [project |-> project[r], database |-> database_data[r]]]
          /\ UNCHANGED log
       \/ /\ Println(r, <<"Failed to write", "write_to_rustyroad_toml">>)
          /\ UNCHANGED <<files, written, record>>
    /\ Continue(r, "write_to_cargo_toml")
    /\ UNCHANGED <<dirs, env, dbs, spawned, name, database_data, project,
                   sql_content, executed, attempts, dev_db_writes, failures>>

\* Project::write_to_rustyroad_toml(&project, &database_data): the record
\* holds the descriptor and the database configuration it was given
write_to_rustyroad_toml(r) ==
    /\ FatalWrite(r, "write_to_rustyroad_toml", "rustyroad.toml",
                  "write_to_cargo_toml")
    /\ record' =
         IF result'[r] = "panic" THEN record
         ELSE [record EXCEPT ![project[r].name] =
                  [project |-> project[r], database |-> database_data[r]]]
    /\ UNCHANGED <<dirs, env, dbs, spawned, name, database_data, project,
                   sql_content, executed, attempts, dev_db_writes>>

\* write_to_cargo_toml with unwrap_or_else(println) in place of expect
write_to_cargo_toml_logged(r) ==
    /\ LoggedWrite(r, "write_to_cargo_toml", "Cargo.toml", "write_to_main_rs")
    /\ WriterFrame

write_to_cargo_toml(r) ==
    /\ FatalWrite(r, "write_to_cargo_toml", "Cargo.toml", "write_to_main_rs")
    /\ WriterFrame

write_to_main_rs(r) ==
    /\ FatalWrite(r, "write_to_main_rs", "main.rs", "write_to_package_json")
    /\ WriterFrame

write_to_package_json(r) ==
    /\ FatalWrite(r, "write_to_package_json", "package.json",
                  "write_to_readme")
    /\ WriterFrame

write_to_readme(r) ==
    /\ FatalWrite(r, "write_to_readme", "README.md", "write_to_index_js")
    /\ WriterFrame

write_to_index_js(r) ==
    /\ LoggedWrite(r, "write_to_index_js", "index.js", "write_to_index_html")
    /\ WriterFrame

write_to_index_html(r) ==
    /\ LoggedWrite(r, "write_to_index_html", "index.html.tera",
                   "write_to_base_html")
    /\ WriterFrame

write_to_base_html(r) ==
    /\ LoggedWrite(r, "write_to_base_html", "base.html.tera",
                   "write_to_tailwind_css")
    /\ WriterFrame

write_to_tailwind_css(r) ==
    /\ LoggedWrite(r, "write_to_tailwind_css", "tailwind.css",
                   "write_to_tailwind_config")
    /\ WriterFrame

write_to_tailwind_config(r) ==
    /\ LoggedWrite(r, "write_to_tailwind_config", "tailwind.config.js",
                   "write_to_postcss_config")
    /\ WriterFrame

write_to_postcss_config(r) ==
    /\ LoggedWrite(r, "write_to_postcss_config", "postcss.config.js",
                   "write_to_index_route")
    /\ WriterFrame

write_to_index_route(r) ==
    /\ LoggedWrite(r, "write_to_index_route", "routes/index.rs",
                   "write_to_gitignore")
    /\ WriterFrame

write_to_gitignore(r) ==
    /\ LoggedWrite(r, "write_to_gitignore", ".gitignore",
                   "write_to_routes_mod")
    /\ WriterFrame

write_to_routes_mod(r) ==
    /\ LoggedWrite(r, "write_to_routes_mod", "routes/mod.rs",
                   "write_to_header")
    /\ WriterFrame

write_to_header(r) ==
    /\ LoggedWrite(r, "write_to_header", "header", "write_to_navbar")
    /\ WriterFrame

write_to_navbar(r) ==
    /\ LoggedWrite(r, "write_to_navbar", "navbar", "write_to_dashboard")
    /\ WriterFrame

write_to_dashboard(r) ==
    /\ LoggedWrite(r, "write_to_dashboard", "dashboard",
                   "write_to_login_page")
    /\ WriterFrame

write_to_login_page(r) ==
    /\ LoggedWrite(r, "write_to_login_page", "login", "match_database_type")
    /\ WriterFrame

\* match temp_database.database_type
match_database_type(r) ==
    /\ pc[r] = "match_database_type"
    /\ Continue(r, database_data[r].database_type)
    /\ UNCHANGED <<shared, name, database_data, project, sql_content,
                   executed, attempts, log, dev_db_writes, failures>>

Scaffold(r) ==
    \/ new(r)
    \/ create_directory(r)
    \/ create_files(r)
    \/ write_to_rustyroad_toml(r)
    \/ write_to_cargo_toml(r)
    \/ write_to_main_rs(r)
    \/ write_to_package_json(r)
    \/ write_to_readme(r)
    \/ write_to_index_js(r)
    \/ write_to_index_html(r)
    \/ write_to_base_html(r)
    \/ write_to_tailwind_css(r)
    \/ write_to_tailwind_config(r)
    \/ write_to_postcss_config(r)
    \/ write_to_index_route(r)
    \/ write_to_gitignore(r)
    \/ write_to_routes_mod(r)
    \/ write_to_header(r)
    \/ write_to_navbar(r)
    \/ write_to_dashboard(r)
    \/ write_to_login_page(r)
    \/ match_database_type(r)

(***************************************************************************)
(* Provisioning, lines 125-336: what the arms share.                       *)
(***************************************************************************)
\* load_sql_for_new_project(..).await?: the statements, or Err returned to
\* the caller by the ? operator
LoadSql(r, step, l) ==
    /\ pc[r] = step
    /\ \/ \E n \in 0 .. MaxStmts :
             /\ sql_content' = [sql_content EXCEPT ![r] = [i \in 1 .. n |-> i]]
             /\ Continue(r, l)
       \/ /\ pc' = [pc EXCEPT ![r] = "returned"]
          /\ result' = [result EXCEPT ![r] = "Err"]
          /\ UNCHANGED <<sql_content, fatal, connection>>
    /\ UNCHANGED <<shared, name, database_data, project, executed, attempts,
                   log, dev_db_writes, failures>>

\* where the run goes once statement k has been executed
AfterStatement(r, k, loop, l) == IF k >= Len(sql_content[r]) THEN l ELSE loop

\* ConnectOptions::new()..connect().await, and the match on its result
Connect(r, step, loop, l) ==
    /\ pc[r] = step
    /\ \/ /\ attempts' = [attempts EXCEPT ![r] =
                             Append(@, [to |-> "target", ok |-> TRUE])]
          /\ connection' = [connection EXCEPT ![r] = "open"]
          /\ pc' = [pc EXCEPT ![r] = AfterStatement(r, 0, loop, l)]
          /\ UNCHANGED <<result, fatal, log>>
       \/ /\ attempts' = [attempts EXCEPT ![r] =
                             Append(@, [to |-> "target", ok |-> FALSE])]
          /\ Panic(r, step)

\* one turn of the for loop whose body panics on a failing statement
ExecuteOrPanic(r, step, l) ==
    /\ pc[r] = step
    /\ LET k == Len(executed[r]) + 1 IN
       \E ok \in BOOLEAN :
          /\ executed' = [executed EXCEPT ![r] = Append(@, <<sql_content[r][k], ok>>)]
          /\ IF ok
             THEN /\ Continue(r, AfterStatement(r, k, step, l))
                  /\ UNCHANGED log
             ELSE Panic(r, step)
    /\ UNCHANGED <<shared, name, database_data, project, sql_content,
                   attempts, dev_db_writes, failures>>

\* one turn of the for loop whose body prints the outcome of the statement
ExecuteAndLog(r, step, l) ==
    /\ pc[r] = step
    /\ LET k == Len(executed[r]) + 1 IN
       \E ok \in BOOLEAN :
          /\ executed' = [executed EXCEPT ![r] = Append(@, <<sql_content[r][k], ok>>)]
          /\ log' = [log EXCEPT ![r] =
                        @ \o << <<"Executing SQL command", k>>,
                                <<IF ok THEN "Successfully executed SQL command"
                                        ELSE "Failed to execute SQL command", k>> >>]
          /\ Continue(r, AfterStatement(r, k, step, l))
    /\ UNCHANGED <<shared, name, database_data, project, sql_content,
                   attempts, dev_db_writes, failures>>

\* what create_database_if_not_exists leaves on the server: the target
\* database is created only where it is absent
CreateIfAbsent(server, d) ==
    IF <<d.database_type, d.name>> \in server THEN server
    ELSE server \cup {<<d.database_type, d.name>>}

\* create_database_if_not_exists(&admin_database_url, database_data.clone())
\* .await.unwrap_or_else(|why| panic!(..)): connects to the admin database
\* and creates the target database where it is absent; the connection or
\* the creation may fail
CreateDatabaseIfNotExists(r, step, url, l) ==
    /\ pc[r] = step
    /\ \/ /\ attempts' = [attempts EXCEPT ![r] =
                             Append(@, [to |-> "admin", ok |-> TRUE,
                                        url |-> url])]
          /\ dbs' = CreateIfAbsent(dbs, database_data[r])
          /\ Continue(r, l)
          /\ UNCHANGED log
       \/ /\ \E ok \in BOOLEAN :
                attempts' = [attempts EXCEPT ![r] =
                                Append(@, [to |-> "admin", ok |-> ok,
                                           url |-> url])]
          /\ Panic(r, step)
          /\ UNCHANGED dbs
    /\ UNCHANGED <<dirs, files, written, record, env, spawned, name,
                   database_data, project, sql_content, executed,
                   dev_db_writes, failures>>

\* env::set_var("DATABASE_URL", database_url.replace(&database_data.name, "test"))
SetVar(r, step, url, l) ==
    /\ pc[r] = step
    /\ env' = Replace(url, database_data[r].name, Test)
    /\ Continue(r, l)
    /\ UNCHANGED <<dirs, files, written, record, dbs, spawned, locals_but_pc,
                   failures>>

\* project.config_dev_db = database_url.clone(); println!("database_url: ..")
SetConfigDevDb(r, step, url, l) ==
    /\ pc[r] = step
    /\ project' = [project EXCEPT ![r].config_dev_db = url]
    /\ dev_db_writes' = [dev_db_writes EXCEPT ![r] = @ + 1]
    /\ Println(r, <<"database_url", url>>)
    /\ Continue(r, l)
    /\ UNCHANGED <<shared, name, database_data, sql_content, executed,
                   attempts, failures>>

\* the arm's block ending with the connection kept alive (mem::forget, or
\* the connection stored outside the arm)
end_of_arm_leaks(r) ==
    /\ pc[r] = "end_of_arm"
    /\ pc' = [pc EXCEPT ![r] = "finish"]
    /\ UNCHANGED <<shared, name, database_data, project, sql_content,
                   executed, connection, attempts, result, fatal, log,
                   dev_db_writes, failures>>

\* the arm's block ends: connection goes out of scope and is dropped
end_of_arm(r) ==
    /\ pc[r] = "end_of_arm"
    /\ connection' = [connection EXCEPT ![r] = "closed"]
    /\ pc' = [pc EXCEPT ![r] = "finish"]
    /\ UNCHANGED <<shared, name, database_data, project, sql_content,
                   executed, attempts, result, fatal, log, dev_db_writes,
                   failures>>

\* println!("Project {} created!", ..); Ok(project)
finish(r) ==
    /\ pc[r] = "finish"
    /\ Println(r, <<"Project created", project[r].name>>)
    /\ pc' = [pc EXCEPT ![r] = "returned"]
    /\ result' = [result EXCEPT ![r] = "Ok"]
    /\ UNCHANGED <<shared, name, database_data, project, sql_content,
                   executed, connection, attempts, fatal, dev_db_writes,
                   failures>>

(***************************************************************************)
(* DatabaseType::Sqlite, lines 126-164.                                    *)
(***************************************************************************)
sqlite_database_url(r) ==
    /\ pc[r] = "Sqlite"
    /\ Println(r, <<"database_url", project[r].config_dev_db>>)
    /\ Continue(r, "sqlite_load_sql")
    /\ UNCHANGED <<shared, name, database_data, project, sql_content,
                   executed, attempts, dev_db_writes, failures>>

sqlite_load_sql(r) == LoadSql(r, "sqlite_load_sql", "sqlite_connect")

sqlite_connect(r) ==
    /\ Connect(r, "sqlite_connect", "sqlite_execute",
               "write_to_sqlite_user_models")
    /\ UNCHANGED <<shared, name, database_data, project, sql_content,
                   executed, dev_db_writes, failures>>

\* the loop running over the statements from the last to the first
sqlite_execute_reversed(r) ==
    /\ pc[r] = "sqlite_execute"
    /\ LET k == Len(executed[r]) + 1 IN
       \E ok \in BOOLEAN :
          /\ executed' = [executed EXCEPT ![r] =
                Append(@, <<sql_content[r][Len(sql_content[r]) + 1 - k], ok>>)]
          /\ IF ok
             THEN /\ Continue(r, AfterStatement(r, k, "sqlite_execute",
                                                "write_to_sqlite_user_models"))
                  /\ UNCHANGED log
             ELSE Panic(r, "sqlite_execute")
    /\ UNCHANGED <<shared, name, database_data, project, sql_content,
                   attempts, dev_db_writes, failures>>

sqlite_execute(r) ==
    ExecuteOrPanic(r, "sqlite_execute", "write_to_sqlite_user_models")

write_to_sqlite_user_models(r) ==
    /\ LoggedWrite(r, "write_to_sqlite_user_models", "models/user.rs",
                   "end_of_arm")
    /\ WriterFrame

(***************************************************************************)
(* DatabaseType::Postgres, lines 166-239.                                  *)
(***************************************************************************)
postgres_create_database_if_not_exists(r) ==
    CreateDatabaseIfNotExists(r, "Postgres",
                              PostgresAdminUrl(database_data[r]),
                              "postgres_set_var")

postgres_set_var(r) ==
    SetVar(r, "postgres_set_var", PostgresDatabaseUrl(database_data[r]),
           "postgres_config_dev_db")

\* config_dev_db assigned the admin URL instead of the target URL
postgres_config_dev_db_admin(r) ==
    SetConfigDevDb(r, "postgres_config_dev_db",
                   PostgresAdminUrl(database_data[r]), "postgres_load_sql")

postgres_config_dev_db(r) ==
    SetConfigDevDb(r, "postgres_config_dev_db",
                   PostgresDatabaseUrl(database_data[r]), "postgres_load_sql")

postgres_load_sql(r) == LoadSql(r, "postgres_load_sql", "postgres_connect")

\* database_data.port.parse::<u16>().unwrap() panics before the connection
\* is attempted
postgres_connect(r) ==
    /\ IF ParseU16(database_data[r].port) < 0
       THEN /\ pc[r] = "postgres_connect"
            /\ Panic(r, "postgres_port_parse")
            /\ UNCHANGED attempts
       ELSE Connect(r, "postgres_connect", "postgres_execute",
                    "write_to_postgres_user_models")
    /\ UNCHANGED <<shared, name, database_data, project, sql_content,
                   executed, dev_db_writes, failures>>

\* the Postgres loop with the MySQL arm's match in its body
postgres_execute_logged(r) ==
    ExecuteAndLog(r, "postgres_execute", "write_to_postgres_user_models")

postgres_execute(r) ==
    ExecuteOrPanic(r, "postgres_execute", "write_to_postgres_user_models")

write_to_postgres_user_models(r) ==
    /\ LoggedWrite(r, "write_to_postgres_user_models", "models/user.rs",
                   "end_of_arm")
    /\ WriterFrame

(***************************************************************************)
(* DatabaseType::Mysql, lines 241-320.                                     *)
(***************************************************************************)
\* create_database_if_not_exists(..) with unwrap_or_else(println) in place
\* of the panic
mysql_create_database_if_not_exists_logged(r) ==
    /\ pc[r] = "Mysql"
    /\ \/ /\ attempts' = [attempts EXCEPT ![r] =
                             Append(@, [to |-> "admin", ok |-> TRUE,
                                        url |-> MysqlAdminUrl(database_data[r])])]
          /\ dbs' = CreateIfAbsent(dbs, database_data[r])
          /\ UNCHANGED log
       \/ /\ attempts' = [attempts EXCEPT ![r] =
                             Append(@, [to |-> "admin", ok |-> FALSE,
                                        url |-> MysqlAdminUrl(database_data[r])])]
          /\ Println(r, <<"Failed to create database">>)
          /\ UNCHANGED dbs
    /\ Continue(r, "mysql_set_var")
    /\ UNCHANGED <<dirs, files, written, record, env, spawned, name,
                   database_data, project, sql_content, executed,
                   dev_db_writes, failures>>

mysql_create_database_if_not_exists(r) ==
    CreateDatabaseIfNotExists(r, "Mysql", MysqlAdminUrl(database_data[r]),
                              "mysql_set_var")

\* the MySQL arm without the assignment to project.config_dev_db
mysql_set_var_then_load(r) ==
    SetVar(r, "mysql_set_var", MysqlDatabaseUrl(database_data[r]),
           "mysql_load_sql")

mysql_set_var(r) ==
    SetVar(r, "mysql_set_var", MysqlDatabaseUrl(database_data[r]),
           "mysql_config_dev_db")

mysql_config_dev_db(r) ==
    SetConfigDevDb(r, "mysql_config_dev_db",
                   MysqlDatabaseUrl(database_data[r]), "mysql_load_sql")

\* load_sql_for_new_project(..).await.expect(..) in place of the ? operator
mysql_load_sql_expect(r) ==
    /\ pc[r] = "mysql_load_sql"
    /\ \/ \E n \in 0 .. MaxStmts :
             /\ sql_content' = [sql_content EXCEPT ![r] = [i \in 1 .. n |-> i]]
             /\ Continue(r, "mysql_connect")
             /\ UNCHANGED log
       \/ /\ Panic(r, "mysql_load_sql")
          /\ UNCHANGED sql_content
    /\ UNCHANGED <<shared, name, database_data, project, executed, attempts,
                   dev_db_writes, failures>>

mysql_load_sql(r) == LoadSql(r, "mysql_load_sql", "mysql_connect")

\* the match on connection_result printing the error instead of panicking
mysql_connect_logged(r) ==
    /\ pc[r] = "mysql_connect"
    /\ \E ok \in BOOLEAN :
          /\ attempts' = [attempts EXCEPT ![r] =
                             Append(@, [to |-> "target", ok |-> ok])]
          /\ connection' = [connection EXCEPT ![r] = IF ok THEN "open" ELSE @]
          /\ IF ok THEN UNCHANGED log
                   ELSE Println(r, <<"Failed to establish connection">>)
    /\ pc' = [pc EXCEPT ![r] = AfterStatement(r, 0, "mysql_execute",
                                              "write_to_mysql_user_models")]
    /\ UNCHANGED <<shared, name, database_data, project, sql_content,
                   executed, result, fatal, dev_db_writes, failures>>

mysql_connect(r) ==
    /\ IF ParseU16(database_data[r].port) < 0
       THEN /\ pc[r] = "mysql_connect"
            /\ Panic(r, "mysql_port_parse")
            /\ UNCHANGED attempts
       ELSE Connect(r, "mysql_connect", "mysql_execute",
                    "write_to_mysql_user_models")
    /\ UNCHANGED <<shared, name, database_data, project, sql_content,
                   executed, dev_db_writes, failures>>

\* the MySQL loop with the commented-out early exit taken
mysql_execute_panics(r) ==
    ExecuteOrPanic(r, "mysql_execute", "write_to_mysql_user_models")

mysql_execute(r) ==
    ExecuteAndLog(r, "mysql_execute", "write_to_mysql_user_models")

write_to_mysql_user_models(r) ==
    /\ LoggedWrite(r, "write_to_mysql_user_models", "models/user.rs",
                   "end_of_arm")
    /\ WriterFrame

(***************************************************************************)
(* DatabaseType::Mongo, lines 322-335.                                     *)
(***************************************************************************)
\* the Mongo arm publishing its URL with env::set_var instead of Command::env
mongo_database_url_set_var(r) ==
    /\ pc[r] = "Mongo"
    /\ env' = MongoDatabaseUrl(database_data[r])
    /\ Println(r, <<"database_url", MongoDatabaseUrl(database_data[r])>>)
    /\ Continue(r, "mongo_diesel_setup")
    /\ UNCHANGED <<dirs, files, written, record, dbs, spawned, name,
                   database_data, project, sql_content, executed, attempts,
                   dev_db_writes, failures>>

mongo_database_url(r) ==
    /\ pc[r] = "Mongo"
    /\ Println(r, <<"database_url", MongoDatabaseUrl(database_data[r])>>)
    /\ Continue(r, "mongo_diesel_setup")
    /\ UNCHANGED <<shared, name, database_data, project, sql_content,
                   executed, attempts, dev_db_writes, failures>>

\* Command::new("diesel").arg("setup").env(..).output().expect(..): only a
\* process that cannot be launched panics; the exit status is printed
mongo_diesel_setup(r) ==
    /\ pc[r] = "mongo_diesel_setup"
    /\ \/ \E status \in {"success", "failure"} :
             /\ spawned' = spawned \cup
                    {<<r, MongoDatabaseUrl(database_data[r]), status>>}
             /\ Println(r, <<"output", status>>)
             /\ Continue(r, "finish")
       \/ /\ Panic(r, "mongo_diesel_setup")
          /\ UNCHANGED spawned
    /\ UNCHANGED <<dirs, files, written, record, env, dbs, name,
                   database_data, project, sql_content, executed, attempts,
                   dev_db_writes, failures>>

Provision(r) ==
    \/ sqlite_database_url(r)
    \/ sqlite_load_sql(r)
    \/ sqlite_connect(r)
    \/ sqlite_execute(r)
    \/ write_to_sqlite_user_models(r)
    \/ postgres_create_database_if_not_exists(r)
    \/ postgres_set_var(r)
    \/ postgres_config_dev_db(r)
    \/ postgres_load_sql(r)
    \/ postgres_connect(r)
    \/ postgres_execute(r)
    \/ write_to_postgres_user_models(r)
    \/ mysql_create_database_if_not_exists(r)
    \/ mysql_set_var(r)
    \/ mysql_config_dev_db(r)
    \/ mysql_load_sql(r)
    \/ mysql_connect(r)
    \/ mysql_execute(r)
    \/ write_to_mysql_user_models(r)
    \/ mongo_database_url(r)
    \/ mongo_diesel_setup(r)
    \/ end_of_arm(r)
    \/ finish(r)

Next == \E r \in Runs : Scaffold(r) \/ Provision(r)

Spec == Init /\ [][Next]_vars

(***************************************************************************)
(* Two calls of create_new_project in one process, as two tasks of the     *)
(* async runtime: their steps interleave.  Both start on an empty disk and *)
(* an empty server, with numeric ports and no injected logged failure;     *)
(* the second call's project name and database name are the first one's or *)
(* others.                                                                 *)
(***************************************************************************)
InitConcurrent ==
    /\ \E n \in ProjectNames :
          name = [r \in Runs |-> IF r = 1 THEN <<"a">> ELSE n]
    /\ pc = [r \in Runs |-> "new"]
    /\ database_data \in [Runs -> {d \in Database : ParseU16(d.port) >= 0}]
    /\ database_data[1].name = <<"d">>
    /\ dbs = {}
    /\ dirs = {}
    /\ files = {}
    /\ written = {}
    /\ record = [n \in ProjectNames |-> NoRecord]
    /\ env = Unset
    /\ spawned = {}
    /\ project = [r \in Runs |-> NoProject]
    /\ sql_content = [r \in Runs |-> <<>>]
    /\ executed = [r \in Runs |-> <<>>]
    /\ connection = [r \in Runs |-> "none"]
    /\ attempts = [r \in Runs |-> <<>>]
    /\ result = [r \in Runs |-> "running"]
    /\ fatal = [r \in Runs |-> "none"]
    /\ log = [r \in Runs |-> <<>>]
    /\ failures = MaxLoggedFailures
    /\ dev_db_writes = [r \in Runs |-> 0]

SpecConcurrent == InitConcurrent /\ [][Next]_vars

(***************************************************************************)
(* What the properties below read off a state.                             *)
(***************************************************************************)
Printed(r, line) == \E i \in 1 .. Len(log[r]) : log[r][i] = line

\* create_directory found the project directory on disk
DirectoryExisted(r) ==
    Printed(r, <<"Couldn't create directory", "AlreadyExists">>)

Has(r, file) == <<project[r].name, file>> \in written

\* the writers in the order create_new_project calls them
WriteOrder ==
    <<"rustyroad.toml", "Cargo.toml", "main.rs", "package.json", "README.md",
      "index.js", "index.html.tera", "base.html.tera", "tailwind.css",
      "tailwind.config.js", "postcss.config.js", "routes/index.rs",
      ".gitignore", "routes/mod.rs", "header", "navbar", "dashboard", "login",
      "models/user.rs">>

\* the configuration record, the manifest and the entry point
EssentialFiles == {"rustyroad.toml", "Cargo.toml", "main.rs"}

\* the writers of every other generated file
NonEssentialWriters ==
    {"write_to_package_json", "write_to_readme", "write_to_index_js",
     "write_to_index_html", "write_to_base_html", "write_to_tailwind_css",
     "write_to_tailwind_config", "write_to_postcss_config",
     "write_to_index_route", "write_to_gitignore", "write_to_routes_mod",
     "write_to_header", "write_to_navbar", "write_to_dashboard",
     "write_to_login_page", "write_to_sqlite_user_models",
     "write_to_postgres_user_models", "write_to_mysql_user_models"}

\* an admin connection, a database creation, a target connection, a
\* statement, a rewrite of config_dev_db or a subprocess has happened
ProvisioningStarted(r) ==
    \/ attempts[r] # <<>>
    \/ executed[r] # <<>>
    \/ dev_db_writes[r] > 0
    \/ \E p \in spawned : p[1] = r

Persisted(r) ==
    /\ Has(r, "rustyroad.toml")
    /\ record[name[r]].database = database_data[r]

Failed(r, k) == ~executed[r][k][2]

TargetUrl(d) ==
    CASE d.database_type = "Postgres" -> PostgresDatabaseUrl(d)
      [] d.database_type = "Mysql" -> MysqlDatabaseUrl(d)
      [] OTHER -> MongoDatabaseUrl(d)

(***************************************************************************)
(* C1. If the project directory is on disk when create_directory runs, the *)
(* call creates no file in it, persists no record, provisions nothing and  *)
(* does not return Ok(project).                                            *)
(* The code prints the failure of create_directory and goes on.            *)
(***************************************************************************)
C1_ExistingDirectoryIsFatal ==
    \A r \in Runs :
        DirectoryExisted(r) =>
            /\ {f \in files : f[1] = project[r].name} = {}
            /\ record[name[r]] = NoRecord
            /\ ~ProvisioningStarted(r)
            /\ result[r] # "Ok"

(***************************************************************************)
(* C2, as claimed. With the directory absent, a run that has ended either  *)
(* returned Ok(project) with the persisted record matching database_data,  *)
(* or panicked with no project directory on disk.                          *)
(***************************************************************************)
C2_OkOrFailedBeforeDirectory ==
    \A r \in Runs :
        (~DirectoryExisted(r) /\ result[r] # "running") =>
            \/ result[r] = "Ok" /\ Persisted(r)
            \/ result[r] = "panic" /\ project[r].name \notin dirs

(***************************************************************************)
(* C2, amended. With the directory absent, a run that has ended returned   *)
(* Ok(project) or Err, in both cases with the record persisted, matching   *)
(* database_data, and the project directory on disk, or it panicked at a   *)
(* step after create_directory; the directory it created stays.            *)
(***************************************************************************)
C2_OkPersistedOrFailedAfterDirectory ==
    \A r \in Runs :
        (~DirectoryExisted(r) /\ result[r] # "running") =>
            \/ /\ result[r] \in {"Ok", "Err"}
               /\ Persisted(r)
               /\ project[r].name \in dirs
            \/ /\ result[r] = "panic"
               /\ fatal[r] \notin {"none", "new", "create_directory"}
               /\ ~Has(r, "rustyroad.toml") => record[name[r]] = NoRecord

C2_Witness ==
    \E r \in Runs :
        /\ ~DirectoryExisted(r)
        /\ result[r] = "Ok"
        /\ Persisted(r)
        /\ database_data[r].database_type = "Postgres"

(***************************************************************************)
(* C3. No run is ended by the failure of a writer of a non-essential file: *)
(* such a failure is only printed.                                         *)
(* The code calls expect on write_to_package_json and write_to_readme.     *)
(***************************************************************************)
C3_NonEssentialFailureIsLogged ==
    \A r \in Runs : result[r] = "panic" => fatal[r] \notin NonEssentialWriters

(***************************************************************************)
(* C4. Where an essential file (rustyroad.toml, Cargo.toml, main.rs) has   *)
(* not been written, no later file has been written, nothing has been      *)
(* provisioned and the run has not returned: the run is still before that  *)
(* writer, or it panicked there or before.                                 *)
(***************************************************************************)
C4_EssentialFailureAborts ==
    \A r \in Runs : \A i \in 1 .. Len(WriteOrder) :
        (WriteOrder[i] \in EssentialFiles /\ ~Has(r, WriteOrder[i])) =>
            /\ \A j \in i + 1 .. Len(WriteOrder) : ~Has(r, WriteOrder[j])
            /\ ~ProvisioningStarted(r)
            /\ result[r] \in {"running", "panic"}
            /\ result[r] = "running" =>
                   pc[r] \in {"idle", "new", "create_directory", "create_files",
                              "write_to_rustyroad_toml", "write_to_cargo_toml",
                              "write_to_main_rs"}

C4_Witness ==
    \E r \in Runs :
        /\ fatal[r] = "write_to_main_rs"
        /\ Has(r, "Cargo.toml")
        /\ ~Has(r, "main.rs")

(***************************************************************************)
(* C5. Whenever a provisioning action has happened, in any arm, the        *)
(* configuration record has been written and holds database_data.          *)
(***************************************************************************)
C5_PersistedBeforeProvisioning ==
    \A r \in Runs :
        (ProvisioningStarted(r) \/ pc[r] \in DatabaseType) => Persisted(r)

C5_Witness ==
    \E r \in Runs :
        /\ database_data[r].database_type = "Mongo"
        /\ \E p \in spawned : p[1] = r
        /\ Persisted(r)

(***************************************************************************)
(* C6, as claimed. Once the configuration record is written, no step       *)
(* changes the descriptor.                                                 *)
(***************************************************************************)
C6_DescriptorFrozenOncePersisted ==
    [][\A r \in Runs :
          record[name[r]] # NoRecord => project'[r] = project[r]]_vars

(***************************************************************************)
(* C6, amended. Once the configuration record is written, the only change  *)
(* to the descriptor is the Postgres and MySQL arms' single assignment of  *)
(* the target URL to config_dev_db; in a SQLite or Mongo run the           *)
(* descriptor stays the one persisted.                                     *)
(***************************************************************************)
C6_OnlyConfigDevDbRewritten ==
    [][\A r \in Runs :
          (record[name[r]] # NoRecord /\ project'[r] # project[r]) =>
              /\ database_data[r].database_type \in {"Postgres", "Mysql"}
              /\ dev_db_writes[r] = 0
              /\ project[r] = record[name[r]].project
              /\ project'[r] =
                     [project[r] EXCEPT
                         !.config_dev_db = TargetUrl(database_data[r])]]_vars

C6_Witness ==
    \E r \in Runs :
        /\ result[r] = "Ok"
        /\ record[name[r]] # NoRecord
        /\ project[r] # record[name[r]].project

(***************************************************************************)
(* C7, as claimed. A run that returned Ok(project) assigned config_dev_db  *)
(* once, the target URL, unless the backend is SQLite, and then never.     *)
(***************************************************************************)
C7_WrittenOnceUnlessSqlite ==
    \A r \in Runs :
        result[r] = "Ok" =>
            IF database_data[r].database_type = "Sqlite"
            THEN dev_db_writes[r] = 0
            ELSE /\ dev_db_writes[r] = 1
                 /\ project[r].config_dev_db = TargetUrl(database_data[r])

(***************************************************************************)
(* C7, amended. A run that returned Ok(project) assigned config_dev_db     *)
(* once, the target URL, if the backend is Postgres or MySQL, and never if *)
(* it is SQLite or Mongo, where it is still the value new(name) gave it.   *)
(***************************************************************************)
C7_WrittenOnceForPostgresAndMysql ==
    \A r \in Runs :
        result[r] = "Ok" =>
            IF database_data[r].database_type \in {"Postgres", "Mysql"}
            THEN /\ dev_db_writes[r] = 1
                 /\ project[r].config_dev_db = TargetUrl(database_data[r])
            ELSE /\ dev_db_writes[r] = 0
                 /\ project[r].config_dev_db = NewProject(name[r]).config_dev_db

C7_Witness ==
    \E r \in Runs :
        /\ result[r] = "Ok"
        /\ database_data[r].database_type = "Mysql"
        /\ dev_db_writes[r] = 1

(***************************************************************************)
(* C8. In a SQLite, Postgres or MySQL run, a failed connection attempt,    *)
(* admin or target, is the last attempt of the run: the run panicked on    *)
(* it, executed no statement and wrote no user-models file.                *)
(***************************************************************************)
C8_ConnectionFailureIsFatal ==
    \A r \in Runs : \A i \in 1 .. Len(attempts[r]) :
        ~attempts[r][i].ok =>
            /\ i = Len(attempts[r])
            /\ executed[r] = <<>>
            /\ ~Has(r, "models/user.rs")
            /\ result[r] = "panic"
            /\ pc[r] = "aborted"

C8_Witness ==
    \E r \in Runs :
        /\ database_data[r].database_type = "Mysql"
        /\ Len(attempts[r]) = 2
        /\ attempts[r][1].ok
        /\ ~attempts[r][2].ok
        /\ Len(sql_content[r]) > 0

(***************************************************************************)
(* C9. In a SQLite or Postgres run a failing statement is the last one     *)
(* executed: the run panicked on it and wrote no user-models file; a run   *)
(* that returned Ok(project) executed every loaded statement, in order,    *)
(* with success.                                                           *)
(***************************************************************************)
C9_AbortOnFirstFailingStatement ==
    \A r \in Runs :
        database_data[r].database_type \in {"Sqlite", "Postgres"} =>
            /\ \A k \in 1 .. Len(executed[r]) :
                  Failed(r, k) =>
                      /\ k = Len(executed[r])
                      /\ ~Has(r, "models/user.rs")
                      /\ result[r] = "panic"
            /\ result[r] = "Ok" =>
                  /\ Len(executed[r]) = Len(sql_content[r])
                  /\ \A k \in 1 .. Len(executed[r]) :
                        executed[r][k] = <<sql_content[r][k], TRUE>>

C9_Witness ==
    \E r \in Runs :
        /\ database_data[r].database_type = "Postgres"
        /\ Len(sql_content[r]) = MaxStmts
        /\ Len(executed[r]) = 2
        /\ ~Failed(r, 1)
        /\ Failed(r, 2)

(***************************************************************************)
(* C10. In a MySQL run with the target connection established, the run     *)
(* neither panics nor returns Err and always has a next step until it has  *)
(* returned Ok(project); once the loop is left, every loaded statement has *)
(* been attempted, in order, whichever of them failed, and each attempt    *)
(* and its outcome has been printed.                                       *)
(***************************************************************************)
Reported(r, k) ==
    \E i \in 1 .. Len(log[r]) - 1 :
        /\ log[r][i] = <<"Executing SQL command", k>>
        /\ log[r][i + 1] =
               <<IF Failed(r, k) THEN "Failed to execute SQL command"
                                 ELSE "Successfully executed SQL command", k>>

C10_MysqlContinuesOnError ==
    \A r \in Runs :
        (database_data[r].database_type = "Mysql" /\ connection[r] # "none") =>
            /\ \/ result[r] = "Ok"
               \/ result[r] = "running" /\ ENABLED Next
            /\ \A k \in 1 .. Len(executed[r]) :
                  executed[r][k][1] = sql_content[r][k] /\ Reported(r, k)
            /\ pc[r] # "mysql_execute" => Len(executed[r]) = Len(sql_content[r])

C10_Witness ==
    \E r \in Runs :
        /\ database_data[r].database_type = "Mysql"
        /\ result[r] = "Ok"
        /\ Len(executed[r]) = MaxStmts
        /\ Failed(r, 1)
        /\ ~Failed(r, 2)
        /\ Failed(r, MaxStmts)

(***************************************************************************)
(* C11. In a Postgres or MySQL run the first connection attempt is the     *)
(* create-if-absent step on the admin URL (database "postgres" or          *)
(* "mysql"); the target connection is attempted only after that step       *)
(* succeeded, with the target database then on the server, and a statement *)
(* is executed only on an established target connection.  The step adds    *)
(* the target database where it is absent and changes nothing where it is  *)
(* there already, and goes on to env::set_var in both cases.               *)
(***************************************************************************)
AdminUrl(d) ==
    IF d.database_type = "Postgres" THEN PostgresAdminUrl(d)
    ELSE MysqlAdminUrl(d)

Target(d) == <<d.database_type, d.name>>

C11_PipelineOrdered ==
    \A r \in Runs :
        database_data[r].database_type \in {"Postgres", "Mysql"} =>
            /\ Len(attempts[r]) <= 2
            /\ attempts[r] # <<>> =>
                  /\ attempts[r][1].to = "admin"
                  /\ attempts[r][1].url = AdminUrl(database_data[r])
            /\ Len(attempts[r]) = 2 =>
                  /\ attempts[r][1].ok
                  /\ attempts[r][2].to = "target"
                  /\ Target(database_data[r]) \in dbs
            /\ executed[r] # <<>> =>
                  /\ Len(attempts[r]) = 2
                  /\ attempts[r][2].ok
                  /\ connection[r] # "none"

C11_CreateIsNoOpWhenPresent ==
    \A r \in Runs :
        (pc[r] \in {"Postgres", "Mysql"} /\ pc'[r] # pc[r]) =>
            /\ dbs' \in {dbs, dbs \cup {Target(database_data[r])}}
            /\ Target(database_data[r]) \in dbs => dbs' = dbs
            /\ pc'[r] # "aborted" =>
                  /\ Target(database_data[r]) \in dbs'
                  /\ pc'[r] = IF pc[r] = "Postgres" THEN "postgres_set_var"
                                                    ELSE "mysql_set_var"

C11_OrderedPipeline == []C11_PipelineOrdered /\ [][C11_CreateIsNoOpWhenPresent]_vars

\* the target database was on the server before the run, and the run went
\* on to execute every statement
C11_Witness ==
    \E r \in Runs :
        /\ database_data[r].database_type = "Postgres"
        /\ Len(attempts[r]) = 2
        /\ Len(executed[r]) = MaxStmts
        /\ result[r] = "Ok"

(***************************************************************************)
(* C12. DATABASE_URL is written only by the env::set_var step of a         *)
(* Postgres or MySQL run whose create-if-absent step succeeded, before any *)
(* target connection attempt of that run: a SQLite run, a Mongo run and a  *)
(* run whose create step failed leave the process environment as it was,   *)
(* and when a Postgres or MySQL run attempts the target connection the     *)
(* variable has been written.                                              *)
(***************************************************************************)
C12_EnvWrittenAfterCreate ==
    \A r \in Runs :
        /\ (\E i \in 1 .. Len(attempts[r]) : attempts[r][i].to = "target")
              /\ database_data[r].database_type \in {"Postgres", "Mysql"}
           => env = Replace(TargetUrl(database_data[r]),
                            database_data[r].name, Test)
        /\ (pc[r] # "idle"
              /\ \/ database_data[r].database_type \in {"Sqlite", "Mongo"}
                 \/ attempts[r] = <<>>
                 \/ ~attempts[r][1].ok)
           => env = Unset

C12_EnvWrittenOnlyBySetVar ==
    env' # env =>
        \E r \in Runs :
            /\ pc[r] \in {"postgres_set_var", "mysql_set_var"}
            /\ pc'[r] # pc[r]
            /\ database_data[r].database_type \in {"Postgres", "Mysql"}
            /\ Len(attempts[r]) = 1
            /\ attempts[r][1].to = "admin"
            /\ attempts[r][1].ok
            /\ Target(database_data[r]) \in dbs

C12_EnvOnlyAfterCreate ==
    []C12_EnvWrittenAfterCreate /\ [][C12_EnvWrittenOnlyBySetVar]_vars

C12_Witness ==
    \E r \in Runs :
        /\ database_data[r].database_type = "Mysql"
        /\ Len(attempts[r]) = 2
        /\ env = Replace(MysqlDatabaseUrl(database_data[r]),
                         database_data[r].name, Test)

(***************************************************************************)
(* C13. A run holds an open target connection only between its successful *)
(* connect and the end of its arm: no connection is open before            *)
(* provisioning, and none is open once the run has returned Ok or Err or   *)
(* has panicked, on a failing statement or anywhere else.                  *)
(***************************************************************************)
ConnectionScope ==
    {"sqlite_execute", "write_to_sqlite_user_models",
     "postgres_execute", "write_to_postgres_user_models",
     "mysql_execute", "write_to_mysql_user_models", "end_of_arm"}

C13_ConnectionReleased ==
    \A r \in Runs :
        /\ connection[r] = "open" =>
              /\ pc[r] \in ConnectionScope
              /\ result[r] = "running"
              /\ attempts[r][Len(attempts[r])] = [to |-> "target", ok |-> TRUE]
        /\ pc[r] \in ConnectionScope \ {"end_of_arm"} => connection[r] = "open"
        /\ (\E i \in 1 .. Len(attempts[r]) :
               attempts[r][i].to = "target" /\ attempts[r][i].ok)
              => connection[r] \in {"open", "closed"}
        /\ result[r] # "running" => connection[r] \in {"none", "closed"}

\* the run panicked on a failing statement and its connection is closed
C13_Witness ==
    \E r \in Runs :
        /\ result[r] = "panic"
        /\ executed[r] # <<>>
        /\ Failed(r, Len(executed[r]))
        /\ connection[r] = "closed"

(***************************************************************************)
(* C14. Of two runs with the same project name, at most one goes past      *)
(* directory creation to write a file into the project directory or to     *)
(* provision a database.                                                   *)
(* The code prints the failure of create_directory and goes on (C1), so    *)
(* the run that finds the directory there proceeds like the one that       *)
(* created it.                                                             *)
(***************************************************************************)
\* the run wrote rustyroad.toml into the project directory, or provisioned
WroteOrProvisioned(r) ==
    \/ ProvisioningStarted(r)
    \/ /\ pc[r] \notin {"idle", "new", "create_directory", "create_files",
                        "write_to_rustyroad_toml"}
       /\ fatal[r] \notin {"create_files", "write_to_rustyroad_toml"}

C14_DirectoryCheckSeparatesRuns ==
    \A r1, r2 \in Runs :
        (r1 # r2 /\ name[r1] = name[r2]) =>
            ~(WroteOrProvisioned(r1) /\ WroteOrProvisioned(r2))

(***************************************************************************)
(* C15. Two runs with different project names and different database       *)
(* configurations write no variable in common: what a run has written      *)
(* into DATABASE_URL is what the variable holds from then on, whatever the *)
(* other run does, so its final value does not depend on the interleaving. *)
(* The code's env::set_var writes the one process-wide variable in every   *)
(* Postgres and MySQL run: the run whose set_var comes last wins.          *)
(***************************************************************************)
\* the run is past its env::set_var
WroteEnv(r) ==
    \/ pc[r] \in {"postgres_config_dev_db", "mysql_config_dev_db"}
    \/ dev_db_writes[r] > 0

C15_NoSharedMutableState ==
    \A r1, r2 \in Runs :
        (/\ r1 # r2
         /\ name[r1] # name[r2]
         /\ database_data[r1] # database_data[r2]
         /\ WroteEnv(r1))
        => env = Replace(TargetUrl(database_data[r1]),
                         database_data[r1].name, Test)

(***************************************************************************)
(* C16. A Mongo run whose subprocess exited with a failure status does not *)
(* return Ok(project).                                                     *)
(* The code prints the Output and returns Ok(project) whatever the exit    *)
(* status: expect only catches a process that could not be launched.       *)
(***************************************************************************)
C16_SubprocessFailureIsNotSuccess ==
    \A p \in spawned : p[3] = "failure" => result[p[1]] # "Ok"

(***************************************************************************)
(* C17. No step removes the project directory, a file on disk or the       *)
(* content written into a file, or clears the persisted record: what is on *)
(* disk stays there in every later state, after a panic or an Err too.     *)
(***************************************************************************)
C17_NoRollback ==
    [][/\ dirs \subseteq dirs'
       /\ files \subseteq files'
       /\ written \subseteq written'
       /\ \A n \in ProjectNames : record[n] # NoRecord => record'[n] # NoRecord]_vars

\* the run panicked in provisioning and the scaffolded project is on disk
C17_Witness ==
    \E r \in Runs :
        /\ result[r] = "panic"
        /\ fatal[r] = "sqlite_connect"
        /\ project[r].name \in dirs
        /\ \A f \in ProjectFiles : <<project[r].name, f>> \in files
        /\ Has(r, "rustyroad.toml")

(***************************************************************************)
(* C18. The value a Postgres or MySQL run publishes in DATABASE_URL is its *)
(* target URL with the database name component replaced by "test" and the  *)
(* scheme, username, password, host and port as they are in the target     *)
(* URL, whatever the database name is.                                     *)
(* The code replaces every occurrence of the database name in the whole    *)
(* URL string: a name that occurs in the scheme or the password is         *)
(* replaced there too.                                                     *)
(***************************************************************************)
C18_OnlyDatabaseNameReplaced ==
    \A r \in Runs :
        WroteEnv(r) =>
            env = FormatUrl(IF database_data[r].database_type = "Postgres"
                            THEN PostgresScheme ELSE MysqlScheme,
                            database_data[r], Test)

(***************************************************************************)
(* C19. In a SQLite, Postgres or MySQL run the statements executed are, in *)
(* order, the first statements of the loaded sequence: none is executed    *)
(* twice, none is skipped and none is executed out of order.  A statement  *)
(* is executed only on the run's one established target connection, and    *)
(* each step of the loop executes one statement, after the statements      *)
(* before it.                                                              *)
(***************************************************************************)
\* the target connections the run has established
Established(r) ==
    {i \in DOMAIN attempts[r] : attempts[r][i].to = "target" /\ attempts[r][i].ok}

C19_ExecutedIsPrefix ==
    \A r \in Runs :
        /\ Len(executed[r]) <= Len(sql_content[r])
        /\ \A k \in DOMAIN executed[r] : executed[r][k][1] = sql_content[r][k]
        /\ Cardinality(Established(r)) <= 1
        /\ executed[r] # <<>> =>
              /\ database_data[r].database_type \in {"Sqlite", "Postgres", "Mysql"}
              /\ Established(r) # {}

C19_OneAtATime ==
    \A r \in Runs :
        \/ executed'[r] = executed[r]
        \/ /\ connection[r] = "open"
           /\ Established(r) # {}
           /\ Len(executed'[r]) = Len(executed[r]) + 1
           /\ SubSeq(executed'[r], 1, Len(executed[r])) = executed[r]
           /\ sql_content'[r] = sql_content[r]

C19_StatementsInOrder == []C19_ExecutedIsPrefix /\ [][C19_OneAtATime]_vars

\* a run has executed its whole sequence of at least two statements, one
\* of them failing
C19_Witness ==
    \E r \in Runs :
        /\ Len(sql_content[r]) >= 2
        /\ Len(executed[r]) = Len(sql_content[r])
        /\ \E k \in DOMAIN executed[r] : Failed(r, k)
        /\ connection[r] = "open"

(***************************************************************************)
(* C20. A run returns Err exactly at a failing load_sql_for_new_project of *)
(* the SQLite, Postgres or MySQL arm: no other step ends a run with Err,   *)
(* and the load step ends a run in no other way.  When a run has returned  *)
(* Err it has opened no target connection and executed no statement; in a  *)
(* Postgres or MySQL run the target database is on the server,             *)
(* DATABASE_URL is written and config_dev_db is the target URL.            *)
(***************************************************************************)
LoadSteps == {"sqlite_load_sql", "postgres_load_sql", "mysql_load_sql"}

C20_ErrOnlyFromLoader ==
    \A r \in Runs :
        /\ result'[r] # result[r] => result[r] = "running"
        /\ (result'[r] = "Err" /\ result[r] # "Err") => pc[r] \in LoadSteps
        /\ (result'[r] # result[r] /\ pc[r] \in LoadSteps) => result'[r] = "Err"

C20_SideEffectsBeforeErr ==
    \A r \in Runs :
        result[r] = "Err" =>
            /\ database_data[r].database_type \in {"Sqlite", "Postgres", "Mysql"}
            /\ \A i \in DOMAIN attempts[r] : attempts[r][i].to # "target"
            /\ connection[r] = "none"
            /\ executed[r] = <<>>
            /\ database_data[r].database_type = "Sqlite" =>
                  /\ attempts[r] = <<>>
                  /\ dev_db_writes[r] = 0
            /\ database_data[r].database_type \in {"Postgres", "Mysql"} =>
                  /\ Target(database_data[r]) \in dbs
                  /\ env = Replace(TargetUrl(database_data[r]),
                                   database_data[r].name, Test)
                  /\ dev_db_writes[r] = 1
                  /\ project[r].config_dev_db = TargetUrl(database_data[r])

=============================================================================
